---- MODULE Spec2Model ----
(***************************************************************************)
(* Model of the expense ledger: the store created by setup_database() or   *)
(* by main(), and the ExpenseTracker data-access class working on it       *)
(* through one sqlite3 connection.                                         *)
(*                                                                         *)
(* Amounts and budget limits are whole currency units.  An optional        *)
(* Python argument is a sequence: <<>> is None, <<v>> is the value v.      *)
(* Every handler is one action; the input `fault` names the store call     *)
(* (counted from 1 inside the handler) at which sqlite3 raises, 0 = none.  *)
(***************************************************************************)
EXTENDS Integers, Sequences, FiniteSets, TLC

\* ---------------------------------------------------------------- bounds
MaxId == 2        \* largest id AUTOINCREMENT hands out in a run

\* ---------------------------------------------------------------- inputs
None == <<>>
Some(v) == <<v>>

Seconds == {1, 2}     \* the seconds the clock passes through
AmountInputs == {-5, 0, 23, 46}
CategoryInputs == {1, 8, 9}
AddDescriptions == {""}
AddDates == {None, Some(""), Some("2026-10-31")}
ExpenseIds == 1..MaxId
Limits == {0, 1, 2, 50}
RangeDates == {"2026-10-31", "2026-11-01"}
Keywords == {"", "RENT", "_"}
MonthInputs == { [year |-> None, month |-> None],
                 [year |-> Some(2026), month |-> Some(10)] }

\* search_by_category by id, by name, by both and by neither
SearchInputs ==
  { [category_id |-> Some(1), category_name |-> None],
    [category_id |-> Some(8), category_name |-> None],
    [category_id |-> Some(8), category_name |-> Some("")],
    [category_id |-> None, category_name |-> None],
    [category_id |-> None, category_name |-> Some("o")],
    [category_id |-> None, category_name |-> Some("F_o")],
    [category_id |-> Some(8), category_name |-> Some("FOOD")],
    [category_id |-> None, category_name |-> Some("zz")] }

\* the optional arguments of update_expense: none, each alone, and the
\* combinations that meet two checks at once
UpdateArgs(amount, category_id, description, date) ==
  [amount |-> amount, category_id |-> category_id,
   description |-> description, date |-> date]

UpdateInputs ==
  { UpdateArgs(None, None, None, None),
    UpdateArgs(Some(0), None, None, None),
    UpdateArgs(Some(46), None, None, None),
    UpdateArgs(None, Some(8), None, None),
    UpdateArgs(None, Some(9), None, None),
    UpdateArgs(Some(0), Some(9), None, None),
    UpdateArgs(Some(46), Some(9), None, None),
    UpdateArgs(Some(46), Some(8), None, None),
    UpdateArgs(None, None, Some(""), None),
    UpdateArgs(None, None, None, Some("2026-11-01")),
    UpdateArgs(Some(46), Some(8), Some("rent"), Some("2026-11-01")) }

\* datetime.date.today().isoformat() at second t of the clock
Today(t) == IF t <= 1 THEN "2026-10-31" ELSE "2026-11-01"

\* ------------------------------------------------------ default categories
SetupCategories ==
  { [id |-> 1, name |-> "Food & Dining",  budget_limit |-> 300],
    [id |-> 2, name |-> "Transportation", budget_limit |-> 150],
    [id |-> 3, name |-> "Entertainment",  budget_limit |-> 100],
    [id |-> 4, name |-> "Shopping",       budget_limit |-> 200],
    [id |-> 5, name |-> "Utilities",      budget_limit |-> 250],
    [id |-> 6, name |-> "Healthcare",     budget_limit |-> 100],
    [id |-> 7, name |-> "Education",      budget_limit |-> 150],
    [id |-> 8, name |-> "Other",          budget_limit |-> 50] }

MainCategories ==
  { [id |-> 1, name |-> "Food",           budget_limit |-> 500],
    [id |-> 2, name |-> "Transportation", budget_limit |-> 200],
    [id |-> 3, name |-> "Entertainment",  budget_limit |-> 100],
    [id |-> 4, name |-> "Utilities",      budget_limit |-> 300],
    [id |-> 5, name |-> "Shopping",       budget_limit |-> 150],
    [id |-> 6, name |-> "Healthcare",     budget_limit |-> 100],
    [id |-> 7, name |-> "Education",      budget_limit |-> 200],
    [id |-> 8, name |-> "Miscellaneous",  budget_limit |-> 50] }

\* ------------------------------------------------------------------ state
VARIABLES
  schema,          \* "missing" (no file), "empty" (file, no tables), "setup", "main"
  categories,      \* rows of the categories table
  expenses,        \* committed rows of the expenses table
  sqlite_sequence, \* committed AUTOINCREMENT counter of expenses
  tx_expenses,     \* expenses as the tracker's connection sees them (uncommitted)
  tx_sequence,     \* the counter as the tracker's connection sees it
  conn,            \* "none" (no tracker yet), "open", "closed"
  clock,           \* current second
  assigned,        \* history: the ids successful add_expense calls have assigned
  last             \* the last call: operation, arguments, result, diagnostic

vars == <<schema, categories, expenses, sqlite_sequence, tx_expenses,
          tx_sequence, conn, clock, assigned, last>>

NoArgs == [expense_id |-> None, amount |-> None, category_id |-> None,
           description |-> None, date |-> None, limit |-> None,
           category_name |-> None, start_date |-> None, end_date |-> None,
           keyword |-> None, year |-> None, month |-> None]

\* ret: "True"/"False" (bool results), "Float" (a total, in `total`), "None",
\* or "Raised" when an exception left the operation instead of a result.
\* fault_at: the store call of the handler at which sqlite3 raised: "read" (a
\* SELECT), "write" (INSERT, UPDATE, DELETE), "commit", or "none".
\* rows: the list a query returned (ret = "List").
\* trace: the steps of add_expense that the call got through, in order:
\* "select_category", "insert", "commit", then "check_budget_limit", or
\* "check_budget_limit_error" when the SELECT of the check raised.
NoCall == [op |-> "none", args |-> NoArgs, ret |-> "None", diag |-> "none",
           signal |-> "none", total |-> 0, rows |-> <<>>, fault_at |-> "none",
           trace |-> <<>>,
           before |-> [expenses |-> {}, categories |-> {}, assigned |-> {},
                       clock |-> 0]]

Before == [expenses |-> expenses, categories |-> categories,
           assigned |-> assigned, clock |-> clock]

\* the caller is between two calls: the previous result has been consumed
Idle == last = NoCall

Init ==
  /\ schema = "missing"
  /\ categories = {}
  /\ expenses = {}
  /\ sqlite_sequence = 0
  /\ tx_expenses = {}
  /\ tx_sequence = 0
  /\ conn = "none"
  /\ clock = 1
  /\ assigned = {}
  /\ last = NoCall

\* ------------------------------------------------------------- bootstrap
\* a plain INSERT of every default row, whatever the table holds
InsertAll(table, rows) == table \cup rows

\* INSERT OR IGNORE: a row is skipped when its id or its name is taken
InsertOrIgnore(table, rows) ==
  table \cup { r \in rows : \A c \in table : c.id # r.id /\ c.name # r.name }

setup_database ==
  /\ Idle
  /\ schema' = IF schema \in {"missing", "empty"} THEN "setup" ELSE schema
  /\ categories' = InsertOrIgnore(categories, SetupCategories)
  /\ last' = [NoCall EXCEPT !.op = "setup_database", !.before = Before]
  /\ UNCHANGED <<expenses, sqlite_sequence, tx_expenses, tx_sequence,
                 conn, clock, assigned>>

main_bootstrap ==
  /\ Idle
  /\ schema = "missing"
  /\ conn = "none"
  /\ schema' = "main"
  /\ categories' = InsertOrIgnore(categories, MainCategories)
  /\ last' = [NoCall EXCEPT !.op = "main_bootstrap", !.before = Before]
  /\ UNCHANGED <<expenses, sqlite_sequence, tx_expenses, tx_sequence,
                 conn, clock, assigned>>

\* ------------------------------------------------------------ connection
connect_db ==
  /\ Idle
  /\ conn = "none"
  /\ conn' = "open"
  /\ schema' = IF schema = "missing" THEN "empty" ELSE schema
  /\ last' = [NoCall EXCEPT !.op = "connect_db", !.before = Before]
  /\ UNCHANGED <<categories, expenses, sqlite_sequence, tx_expenses,
                 tx_sequence, clock, assigned>>

close_db ==
  /\ Idle
  /\ conn # "none"
  /\ conn' = "closed"
  /\ tx_expenses' = expenses
  /\ tx_sequence' = sqlite_sequence
  /\ last' = [NoCall EXCEPT !.op = "close_db", !.before = Before]
  /\ UNCHANGED <<schema, categories, expenses, sqlite_sequence, clock,
                 assigned>>

Tick ==
  /\ Idle
  /\ clock + 1 \in Seconds
  /\ clock' = clock + 1
  /\ UNCHANGED <<schema, categories, expenses, sqlite_sequence, tx_expenses,
                 tx_sequence, conn, assigned, last>>

\* --------------------------------------------------------- the connection
\* the store as the handler sees it while it runs
Store == [expenses |-> expenses, sqlite_sequence |-> sqlite_sequence,
          tx_expenses |-> tx_expenses, tx_sequence |-> tx_sequence]

\* cursor.execute raises sqlite3.Error: closed connection, missing table, or
\* the injected fault at store call k
ExecRaises(k, fault) ==
  conn = "closed" \/ schema \in {"missing", "empty"} \/ fault = k

\* the store calls of a handler with n of them at which a fault can be
\* injected; a closed connection raises at the first by itself
Faults(n) == IF conn = "closed" THEN {0} ELSE 0..n

\* conn.commit raises sqlite3.Error
CommitRaises(k, fault) == conn = "closed" \/ fault = k

Commit(s) == [s EXCEPT !.expenses = s.tx_expenses,
                       !.sqlite_sequence = s.tx_sequence]

Rollback(s) == [s EXCEPT !.tx_expenses = s.expenses,
                         !.tx_sequence = s.sqlite_sequence]

Outcome(s, ret, diag, fault_at) ==
  [store |-> s, ret |-> ret, diag |-> diag, signal |-> "none", total |-> 0,
   rows |-> <<>>, fault_at |-> fault_at, trace |-> <<>>]

\* `except sqlite3.Error: print(...); self.conn.rollback(); return False`
\* rollback() on a closed connection raises in its turn, out of the handler
OnError(s, fault_at) ==
  IF conn = "closed"
    THEN Outcome(s, "Raised", "error", fault_at)
    ELSE Outcome(Rollback(s), "False", "error", fault_at)

\* a category lookup that ignores the id it was asked for
CategoryExistsAny(category_id) == categories # {}

\* a category lookup that compares with <= in place of =
CategoryExistsUpTo(category_id) == \E c \in categories : c.id <= category_id

\* SELECT id FROM categories WHERE id = ? finds a row; the same lookup is what
\* the FOREIGN KEY of expenses.category_id enforces
CategoryExists(category_id) == \E c \in categories : c.id = category_id

\* no amount check at all
AmountRejectedNever(amount) == FALSE

\* an amount check that lets zero through
AmountRejectedBelowZero(amount) == amount < 0

\* `if amount <= 0:` of add_expense and update_expense
AmountRejected(amount) == amount <= 0

\* a rowcount check that never reports a missing row
RowFoundAlways(matched) == TRUE

\* `if self.cursor.rowcount == 0:` is not taken
RowFound(matched) == matched # {}

\* the constraints of the expenses table that an INSERT or UPDATE can break
ConstraintFails(row) ==
  \/ schema = "setup" /\ ~(row.amount > 0)
  \/ ~CategoryExists(row.category_id)

\* COUNT(*) in place of SUM(amount)
CountRows(rows) == Cardinality(rows)

RECURSIVE Sum(_)
Sum(rows) ==
  IF rows = {} THEN 0
  ELSE LET r == CHOOSE x \in rows : TRUE IN r.amount + Sum(rows \ {r})

\* ---------------------------------------------------- check_budget_limit
\* a check that takes a total equal to the limit for one over it
check_budget_limit_from_limit(s, category_id, raises) ==
  IF raises \/ {x \in categories : x.id = category_id} = {} THEN "none"
  ELSE LET c == CHOOSE x \in categories : x.id = category_id
           spent == Sum({e \in s.tx_expenses : e.category_id = category_id})
       IN IF ~(c.budget_limit > 0) THEN "none"
          ELSE IF spent >= c.budget_limit THEN "over"
          ELSE IF 10 * spent > 9 * c.budget_limit THEN "near"
          ELSE "none"

\* a check that reads the rows committed before the call it serves
check_budget_limit_before_insert(s, category_id, raises) ==
  IF raises \/ {x \in categories : x.id = category_id} = {} THEN "none"
  ELSE LET c == CHOOSE x \in categories : x.id = category_id
           spent == Sum({e \in expenses : e.category_id = category_id})
       IN IF ~(c.budget_limit > 0) THEN "none"
          ELSE IF spent > c.budget_limit THEN "over"
          ELSE IF 10 * spent > 9 * c.budget_limit THEN "near"
          ELSE "none"

\* SELECT c.name, c.budget_limit, COALESCE(SUM(e.amount), 0) ... WHERE c.id = ?
\* then `if result and result['budget_limit'] > 0:`, `if spent > limit`,
\* `elif spent > limit * 0.9`; a fault of the SELECT is caught and printed
check_budget_limit(s, category_id, raises) ==
  IF raises \/ {x \in categories : x.id = category_id} = {} THEN "none"
  ELSE LET c == CHOOSE x \in categories : x.id = category_id
           spent == Sum({e \in s.tx_expenses : e.category_id = category_id})
       IN IF ~(c.budget_limit > 0) THEN "none"
          ELSE IF spent > c.budget_limit THEN "over"
          ELSE IF 10 * spent > 9 * c.budget_limit THEN "near"
          ELSE "none"

\* ------------------------------------------------------------ add_expense
\* an id column without AUTOINCREMENT: one more than the largest stored id
NextIdAfterLargest(s) ==
  IF s.tx_expenses = {} THEN 1
  ELSE (CHOOSE i \in {e.id : e \in s.tx_expenses} :
          \A e \in s.tx_expenses : e.id <= i) + 1

\* id INTEGER PRIMARY KEY AUTOINCREMENT: one more than the largest id the
\* table ever held, which sqlite_sequence records
NextId(s) == s.tx_sequence + 1

\* store calls: 1 SELECT category, 2 INSERT, 3 commit, 4 SELECT of the check
add_expense_outcome(amount, category_id, description, date, fault) ==
  LET s == Store
      d == IF date = None \/ date = Some("") THEN Today(clock) ELSE date[1]
      row == [id |-> NextId(s), amount |-> amount,
              category_id |-> category_id, description |-> description,
              date |-> d, created_at |-> clock]
      inserted == [s EXCEPT !.tx_expenses = @ \cup {row},
                            !.tx_sequence = row.id]
  IN IF AmountRejected(amount) THEN Outcome(s, "False", "amount", "none")
     ELSE IF ExecRaises(1, fault) THEN OnError(s, "read")
     ELSE IF ~CategoryExists(category_id)
       THEN [Outcome(s, "False", "category", "none") EXCEPT
               !.trace = <<"select_category">>]
     ELSE IF ExecRaises(2, fault) \/ ConstraintFails(row)
       THEN [OnError(s, "write") EXCEPT !.trace = <<"select_category">>]
     ELSE IF CommitRaises(3, fault)
       THEN [OnError(inserted, "commit") EXCEPT
               !.trace = <<"select_category", "insert">>]
     ELSE [Outcome(Commit(inserted), "True", "ok", "none") EXCEPT
             !.signal = check_budget_limit(Commit(inserted), category_id,
                                           ExecRaises(4, fault)),
             !.trace = <<"select_category", "insert", "commit",
                         IF ExecRaises(4, fault)
                           THEN "check_budget_limit_error"
                           ELSE "check_budget_limit">>]

\* --------------------------------------------------------- update_expense
Supplied(arg) == arg # None

\* an UPDATE that writes the empty string into an unsupplied description
ApplyUpdateBlankDescription(e, amount, category_id, description, date) ==
  [id |-> e.id,
   amount |-> IF Supplied(amount) THEN amount[1] ELSE e.amount,
   category_id |-> IF Supplied(category_id) THEN category_id[1]
                   ELSE e.category_id,
   description |-> IF Supplied(description) THEN description[1] ELSE "",
   date |-> IF Supplied(date) THEN date[1] ELSE e.date,
   created_at |-> e.created_at]

\* an update that never finds its list of SET clauses empty
NothingToUpdateNever(amount, category_id, description, date) == FALSE

\* `if not updates:`
NothingToUpdate(amount, category_id, description, date) ==
  ~(Supplied(amount) \/ Supplied(category_id) \/ Supplied(description)
    \/ Supplied(date))

\* UPDATE expenses SET <the supplied columns> on one row
ApplyUpdate(e, amount, category_id, description, date) ==
  [id |-> e.id,
   amount |-> IF Supplied(amount) THEN amount[1] ELSE e.amount,
   category_id |-> IF Supplied(category_id) THEN category_id[1]
                   ELSE e.category_id,
   description |-> IF Supplied(description) THEN description[1]
                   ELSE e.description,
   date |-> IF Supplied(date) THEN date[1] ELSE e.date,
   created_at |-> e.created_at]

\* store calls: 1 SELECT category (when supplied), 2 UPDATE, 3 commit
update_expense_outcome(expense_id, amount, category_id, description, date, fault) ==
  LET s == Store
      matched == {e \in s.tx_expenses : e.id = expense_id}
      changed == {ApplyUpdate(e, amount, category_id, description, date) :
                    e \in matched}
      updated == [s EXCEPT !.tx_expenses = (@ \ matched) \cup changed]
  IN IF Supplied(amount) /\ AmountRejected(amount[1])
       THEN Outcome(s, "False", "amount", "none")
     ELSE IF Supplied(category_id) /\ ExecRaises(1, fault)
       THEN OnError(s, "read")
     ELSE IF Supplied(category_id) /\ ~CategoryExists(category_id[1])
       THEN Outcome(s, "False", "category", "none")
     ELSE IF NothingToUpdate(amount, category_id, description, date)
       THEN Outcome(s, "False", "nothing", "none")
     ELSE IF ExecRaises(2, fault) \/ \E r \in changed : ConstraintFails(r)
       THEN OnError(s, "write")
     ELSE IF ~RowFound(matched) THEN Outcome(s, "False", "not_found", "none")
     ELSE IF CommitRaises(3, fault) THEN OnError(updated, "commit")
     ELSE Outcome(Commit(updated), "True", "ok", "none")

\* --------------------------------------------------------- delete_expense
\* a DELETE whose WHERE clause compares with >= in place of =
delete_expense_from_id_on(expense_id, fault) ==
  LET s == Store
      matched == {e \in s.tx_expenses : e.id >= expense_id}
      deleted == [s EXCEPT !.tx_expenses = @ \ matched]
  IN IF ExecRaises(1, fault) THEN OnError(s, "write")
     ELSE IF ~RowFound(matched) THEN Outcome(s, "False", "not_found", "none")
     ELSE IF CommitRaises(2, fault) THEN OnError(deleted, "commit")
     ELSE Outcome(Commit(deleted), "True", "ok", "none")

\* store calls: 1 DELETE, 2 commit
delete_expense_outcome(expense_id, fault) ==
  LET s == Store
      matched == {e \in s.tx_expenses : e.id = expense_id}
      deleted == [s EXCEPT !.tx_expenses = @ \ matched]
  IN IF ExecRaises(1, fault) THEN OnError(s, "write")
     ELSE IF ~RowFound(matched) THEN Outcome(s, "False", "not_found", "none")
     ELSE IF CommitRaises(2, fault) THEN OnError(deleted, "commit")
     ELSE Outcome(Commit(deleted), "True", "ok", "none")

\* ----------------------------------------------------- get_total_spending
\* store call: 1 SELECT SUM(amount); a NULL sum is reported as 0.0
get_total_spending_outcome(fault) ==
  LET total == IF tx_expenses = {} THEN <<>> ELSE <<Sum(tx_expenses)>>
  IN IF ExecRaises(1, fault)
       THEN [Outcome(Store, "Float", "error", "read") EXCEPT !.total = 0]
     ELSE IF total # <<>>
       THEN [Outcome(Store, "Float", "ok", "none") EXCEPT !.total = total[1]]
     ELSE [Outcome(Store, "Float", "ok", "none") EXCEPT !.total = 0]

\* ---------------------------------------------------------------- queries
\* the value SQL calls NULL, and Python None
NULL == <<>>

\* the characters of the strings the model uses
Chars(str) ==
  CASE str = "" -> <<>>
    [] str = "Food & Dining" ->
           <<"F", "o", "o", "d", " ", "&", " ", "D", "i", "n", "i", "n", "g">>
    [] str = "Transportation" ->
           <<"T", "r", "a", "n", "s", "p", "o", "r", "t", "a", "t", "i", "o", "n">>
    [] str = "Entertainment" ->
           <<"E", "n", "t", "e", "r", "t", "a", "i", "n", "m", "e", "n", "t">>
    [] str = "Shopping" ->
           <<"S", "h", "o", "p", "p", "i", "n", "g">>
    [] str = "Utilities" ->
           <<"U", "t", "i", "l", "i", "t", "i", "e", "s">>
    [] str = "Healthcare" ->
           <<"H", "e", "a", "l", "t", "h", "c", "a", "r", "e">>
    [] str = "Education" ->
           <<"E", "d", "u", "c", "a", "t", "i", "o", "n">>
    [] str = "Other" ->
           <<"O", "t", "h", "e", "r">>
    [] str = "Food" ->
           <<"F", "o", "o", "d">>
    [] str = "Miscellaneous" ->
           <<"M", "i", "s", "c", "e", "l", "l", "a", "n", "e", "o", "u", "s">>
    [] str = "RENT" ->
           <<"R", "E", "N", "T">>
    [] str = "_" ->
           <<"_">>
    [] str = "rent" ->
           <<"r", "e", "n", "t">>
    [] str = "FOOD" ->
           <<"F", "O", "O", "D">>
    [] str = "o" ->
           <<"o">>
    [] str = "F_o" ->
           <<"F", "_", "o">>
    [] str = "zz" ->
           <<"z", "z">>

\* LIKE folds the case of ASCII letters
Lower(ch) ==
  CASE ch = "D" -> "d"
    [] ch = "E" -> "e"
    [] ch = "F" -> "f"
    [] ch = "H" -> "h"
    [] ch = "M" -> "m"
    [] ch = "N" -> "n"
    [] ch = "O" -> "o"
    [] ch = "R" -> "r"
    [] ch = "S" -> "s"
    [] ch = "T" -> "t"
    [] ch = "U" -> "u"
    [] OTHER -> ch

\* text LIKE pattern: % stands for any run of characters, _ for any one
RECURSIVE Like(_, _)
Like(pattern, text) ==
  IF pattern = <<>> THEN text = <<>>
  ELSE IF Head(pattern) = "%"
    THEN Like(Tail(pattern), text)
         \/ (text # <<>> /\ Like(pattern, Tail(text)))
  ELSE /\ text # <<>>
       /\ (Head(pattern) = "_" \/ Lower(Head(pattern)) = Lower(Head(text)))
       /\ Like(Tail(pattern), Tail(text))

\* f"%{keyword}%"
Wrapped(keyword) == <<"%">> \o Chars(keyword) \o <<"%">>

\* the 'YYYY-MM-DD' strings of the model in their order as strings
DateOrder == <<"2026-10-31", "2026-11-01">>
DateRank(d) == CHOOSE i \in 1..Len(DateOrder) : DateOrder[i] = d

\* strftime('%Y', date) and strftime('%m', date) as numbers
YearOf(d) == 2026
MonthOf(d) == IF d = "2026-10-31" THEN 10 ELSE 11

\* the category names of both bootstraps in their order as strings, the order
\* of the index the UNIQUE constraint on categories.name creates
NameOrder == <<"Education",
              "Entertainment",
              "Food",
              "Food & Dining",
              "Healthcare",
              "Miscellaneous",
              "Other",
              "Shopping",
              "Transportation",
              "Utilities">>
Names == {NameOrder[i] : i \in 1..Len(NameOrder)}
NameRankOf == [n \in Names |-> CHOOSE i \in 1..Len(NameOrder) : NameOrder[i] = n]
NameRank(n) == NameRankOf[n]

\* the orders in which the store may hand out rows that ORDER BY leaves equal
ScanOrders == {"forward", "backward"}

\* a SELECT that raises hands out no rows: there is an order to choose only
\* when no fault is injected
Scans(fault) == IF fault = 0 THEN ScanOrders ELSE {"forward"}
TieKey(scan, id) == IF scan = "backward" THEN id ELSE 0 - id

\* sort keys are triples of integers, compared from the left
KeyGreater(a, b) ==
  \/ a[1] > b[1]
  \/ a[1] = b[1] /\ a[2] > b[2]
  \/ a[1] = b[1] /\ a[2] = b[2] /\ a[3] > b[3]

\* ORDER BY ... DESC of a set of [key, row]: the rows, largest key first
RECURSIVE SortDesc(_)
SortDesc(keyed) ==
  IF keyed = {} THEN <<>>
  ELSE LET m == CHOOSE x \in keyed :
                  \A y \in keyed \ {x} : KeyGreater(x.key, y.key)
       IN <<m.row>> \o SortDesc(keyed \ {m})

\* LIMIT n; a negative n is no limit
Limit(rows, n) ==
  IF n < 0 \/ n >= Len(rows) THEN rows ELSE SubSeq(rows, 1, n)

\* a join that names every expense after the first category
CategoryNameOfFirst(category_id) ==
  (CHOOSE c \in categories : \A x \in categories : c.id <= x.id).name

\* FROM expenses e JOIN categories c ON e.category_id = c.id
Joined(rows) == {e \in rows : \E c \in categories : c.id = e.category_id}
CategoryName(category_id) ==
  (CHOOSE c \in categories : c.id = category_id).name

\* the columns view_all_expenses selects
ViewRow(e) ==
  [id |-> e.id, amount |-> e.amount, category |-> CategoryName(e.category_id),
   description |-> e.description, date |-> e.date,
   created_at |-> e.created_at]

\* the columns the three searches select
SearchRow(e) ==
  [id |-> e.id, amount |-> e.amount, category |-> CategoryName(e.category_id),
   description |-> e.description, date |-> e.date]

\* a query that deletes the expenses once it has read them
ReadOutcomeClearing(rows, raises) ==
  IF raises THEN [Outcome(Store, "List", "error", "read") EXCEPT !.rows = <<>>]
  ELSE [Outcome([Store EXCEPT !.expenses = {}, !.tx_expenses = {}],
                "List", "ok", "none") EXCEPT !.rows = rows]

\* the result of a query whose SELECT ran, or raised and was caught
ReadOutcome(rows, raises) ==
  IF raises THEN [Outcome(Store, "List", "error", "read") EXCEPT !.rows = <<>>]
  ELSE [Outcome(Store, "List", "ok", "none") EXCEPT !.rows = rows]

\* ------------------------------------------------------ view_all_expenses
\* a listing in ascending order of date: ORDER BY e.date, e.created_at
view_all_expenses_rows_ascending(limit, scan) ==
  Limit(SortDesc({ [key |-> <<0 - DateRank(e.date), 0 - e.created_at,
                             TieKey(scan, e.id)>>,
                    row |-> ViewRow(e)] : e \in Joined(tx_expenses) }),
        limit)

\* a listing ordered by creation time alone: ORDER BY e.created_at DESC
view_all_expenses_rows_by_creation(limit, scan) ==
  Limit(SortDesc({ [key |-> <<e.created_at, TieKey(scan, e.id), 0>>,
                    row |-> ViewRow(e)] : e \in Joined(tx_expenses) }),
        limit)

\* ORDER BY e.date DESC, e.created_at DESC LIMIT ?
view_all_expenses_rows(limit, scan) ==
  Limit(SortDesc({ [key |-> <<DateRank(e.date), e.created_at,
                             TieKey(scan, e.id)>>,
                    row |-> ViewRow(e)] : e \in Joined(tx_expenses) }),
        limit)

view_all_expenses_outcome(limit, scan, fault) ==
  ReadOutcome(view_all_expenses_rows(limit, scan), ExecRaises(1, fault))

\* ----------------------------------------------------- search_by_category
\* fetchone() of SELECT id FROM categories WHERE name LIKE ?: the first match
\* of a scan of the table (by id) or of the index on name (by name)
FirstOrders == {"by_id", "by_name"}
\* fetchone() runs only when a name is given
Firsts(category_name) ==
  IF category_name \in {None, Some("")} THEN {"by_id"} ELSE FirstOrders
FetchOne(matches, first) ==
  IF first = "by_id"
    THEN CHOOSE c \in matches : \A x \in matches : c.id <= x.id
    ELSE CHOOSE c \in matches :
           \A x \in matches : NameRank(c.name) <= NameRank(x.name)

\* WHERE e.category_id = ? ORDER BY e.date DESC; a NULL id matches no row
search_by_category_rows(category_id, scan) ==
  SortDesc({ [key |-> <<DateRank(e.date), TieKey(scan, e.id), 0>>,
              row |-> SearchRow(e)] :
             e \in {x \in Joined(tx_expenses) :
                      category_id # None /\ x.category_id = category_id[1]} })

\* name LIKE '%category_name%' for every name searched for and every
\* category name, worked out once: the names that match
NameLike ==
  [p \in {q.category_name[1] :
            q \in {x \in SearchInputs : x.category_name # None}} |->
     {n \in Names : Like(Wrapped(p), Chars(n))}]

\* store calls: 1 SELECT category by name (when a name is given), 2 SELECT
search_by_category_outcome(category_id, category_name, first, scan, fault) ==
  LET named == category_name # None /\ category_name # Some("")
      matches == {c \in categories : c.name \in NameLike[category_name[1]]}
  IN IF named /\ ExecRaises(1, fault) THEN ReadOutcome(<<>>, TRUE)
     ELSE IF named /\ matches = {}
       THEN Outcome(Store, "List", "no_category", "none")
     ELSE ReadOutcome(
            search_by_category_rows(
              IF named THEN Some(FetchOne(matches, first).id)
              ELSE category_id, scan),
            ExecRaises(2, fault))

\* --------------------------------------------------- filter_by_date_range
\* a range test that leaves the start date out
InRangeAfterStart(d, start_date, end_date) ==
  DateRank(start_date) < DateRank(d) /\ DateRank(d) <= DateRank(end_date)

\* e.date BETWEEN ? AND ?
InRange(d, start_date, end_date) ==
  DateRank(start_date) <= DateRank(d) /\ DateRank(d) <= DateRank(end_date)

filter_by_date_range_rows(start_date, end_date, scan) ==
  SortDesc({ [key |-> <<DateRank(e.date), TieKey(scan, e.id), 0>>,
              row |-> SearchRow(e)] :
             e \in {x \in Joined(tx_expenses) :
                      InRange(x.date, start_date, end_date)} })

filter_by_date_range_outcome(start_date, end_date, scan, fault) ==
  ReadOutcome(filter_by_date_range_rows(start_date, end_date, scan),
              ExecRaises(1, fault))

\* -------------------------------------------------- search_by_description
\* WHERE e.description LIKE ? ORDER BY e.date DESC
search_by_description_outcome(keyword, scan, fault) ==
  ReadOutcome(
    SortDesc({ [key |-> <<DateRank(e.date), TieKey(scan, e.id), 0>>,
                row |-> SearchRow(e)] :
               e \in {x \in Joined(tx_expenses) :
                        Like(Wrapped(keyword), Chars(x.description))} }),
    ExecRaises(1, fault))

\* --------------------------------------------------- get_spending_summary
\* SUM(e.amount) of a group: NULL when the group has no expense
SUM(rows) == IF rows = {} THEN NULL ELSE <<Sum(rows)>>

\* ROUND((SUM(e.amount) / c.budget_limit) * 100, 2), in hundredths of a
\* percent.  The columns main() declares DECIMAL hold whole amounts as
\* integers, and the store divides two integers without a remainder.
PercentUsed(total, budget_limit) ==
  IF schema = "main" THEN (total \div budget_limit) * 10000
  ELSE (20000 * total + budget_limit) \div (2 * budget_limit)

\* a summary that divides by the budget limit whenever there is a total
SummaryRowAlwaysDivides(c) ==
  LET group == {e \in tx_expenses : e.category_id = c.id}
  IN [category |-> c.name, transaction_count |-> Cardinality(group),
      total_spent |-> SUM(group), budget_limit |-> c.budget_limit,
      remaining_budget |-> IF group = {} THEN NULL
                           ELSE <<c.budget_limit - Sum(group)>>,
      percent_used |-> IF group = {} \/ c.budget_limit = 0 THEN NULL
                       ELSE <<PercentUsed(Sum(group), c.budget_limit)>>]

\* one row of the summary: category c LEFT JOINed with its expenses
SummaryRow(c) ==
  LET group == {e \in tx_expenses : e.category_id = c.id}
  IN [category |-> c.name, transaction_count |-> Cardinality(group),
      total_spent |-> SUM(group), budget_limit |-> c.budget_limit,
      remaining_budget |-> IF group = {} THEN NULL
                           ELSE <<c.budget_limit - Sum(group)>>,
      percent_used |-> IF c.budget_limit > 0
                       THEN (IF group = {} THEN NULL
                             ELSE <<PercentUsed(Sum(group), c.budget_limit)>>)
                       ELSE <<0>>]

\* GROUP BY c.id, c.name, c.budget_limit ORDER BY total_spent DESC; NULL
\* sorts below every number
get_spending_summary_rows(scan) ==
  SortDesc({ [key |-> <<IF SummaryRow(c).total_spent = NULL THEN 0 - 1
                        ELSE SummaryRow(c).total_spent[1],
                        TieKey(scan, c.id), 0>>,
              row |-> SummaryRow(c)] : c \in categories })

get_spending_summary_outcome(scan, fault) ==
  ReadOutcome(get_spending_summary_rows(scan), ExecRaises(1, fault))

\* --------------------------------------------------- get_monthly_spending
\* year and month default to those of today; an inner join: only the
\* categories with an expense in the month
get_monthly_spending_outcome(year, month, scan, fault) ==
  LET y == IF year = None THEN YearOf(Today(clock)) ELSE year[1]
      m == IF month = None THEN MonthOf(Today(clock)) ELSE month[1]
      group(c) == {e \in tx_expenses : /\ e.category_id = c.id
                                       /\ YearOf(e.date) = y
                                       /\ MonthOf(e.date) = m}
  IN ReadOutcome(
       SortDesc({ [key |-> <<Sum(group(c)), TieKey(scan, c.id), 0>>,
                   row |-> [category |-> c.name,
                            monthly_total |-> Sum(group(c)),
                            transaction_count |-> Cardinality(group(c))]] :
                  c \in {x \in categories : group(x) # {}} }),
       ExecRaises(1, fault))

\* -------------------------------------------------------- list_categories
\* a JOIN in place of the LEFT JOIN: categories without expenses drop out
list_categories_rows_inner_join ==
  SortDesc({ [key |-> <<0 - c.id, 0, 0>>,
              row |-> [id |-> c.id, name |-> c.name,
                       budget_limit |-> c.budget_limit,
                       total_spent |->
                         Sum({e \in tx_expenses : e.category_id = c.id})]] :
             c \in {x \in categories :
                      \E e \in tx_expenses : e.category_id = x.id} })

\* COALESCE(SUM(e.amount), 0) ... GROUP BY c.id ORDER BY c.id
list_categories_rows ==
  SortDesc({ [key |-> <<0 - c.id, 0, 0>>,
              row |-> [id |-> c.id, name |-> c.name,
                       budget_limit |-> c.budget_limit,
                       total_spent |->
                         IF SUM({e \in tx_expenses : e.category_id = c.id})
                              = NULL THEN 0
                         ELSE SUM({e \in tx_expenses :
                                     e.category_id = c.id})[1]]] :
             c \in categories })

list_categories_outcome(fault) ==
  ReadOutcome(list_categories_rows, ExecRaises(1, fault))

\* ---------------------------------------------------------------- actions
\* the state after a handler has run to its return (or its raise)
Returns(op, args, o) ==
  /\ expenses' = o.store.expenses
  /\ sqlite_sequence' = o.store.sqlite_sequence
  /\ tx_expenses' = o.store.tx_expenses
  /\ tx_sequence' = o.store.tx_sequence
  /\ last' = [op |-> op, args |-> args, ret |-> o.ret, diag |-> o.diag,
              signal |-> o.signal, total |-> o.total, rows |-> o.rows,
              fault_at |-> o.fault_at, trace |-> o.trace,
              before |-> Before]
  /\ assigned' = assigned \cup ({e.id : e \in o.store.expenses}
                                  \ {e.id : e \in expenses})
  /\ UNCHANGED <<schema, categories, conn, clock>>

add_expense ==
  /\ Idle
  /\ conn # "none"
  /\ sqlite_sequence < MaxId
  /\ \E amount \in AmountInputs, category_id \in CategoryInputs,
        description \in AddDescriptions, date \in AddDates, fault \in Faults(4) :
       Returns("add_expense",
               [NoArgs EXCEPT !.amount = Some(amount),
                              !.category_id = Some(category_id),
                              !.description = Some(description),
                              !.date = date],
               add_expense_outcome(amount, category_id, description, date,
                                   fault))

update_expense ==
  /\ Idle
  /\ conn # "none"
  /\ \E expense_id \in ExpenseIds, u \in UpdateInputs, fault \in Faults(3) :
       Returns("update_expense",
               [NoArgs EXCEPT !.expense_id = Some(expense_id),
                              !.amount = u.amount,
                              !.category_id = u.category_id,
                              !.description = u.description,
                              !.date = u.date],
               update_expense_outcome(expense_id, u.amount, u.category_id,
                                      u.description, u.date, fault))

delete_expense ==
  /\ Idle
  /\ conn # "none"
  /\ \E expense_id \in ExpenseIds, fault \in Faults(2) :
       Returns("delete_expense",
               [NoArgs EXCEPT !.expense_id = Some(expense_id)],
               delete_expense_outcome(expense_id, fault))

get_total_spending ==
  /\ Idle
  /\ conn # "none"
  /\ \E fault \in Faults(1) :
       Returns("get_total_spending", NoArgs,
               get_total_spending_outcome(fault))

view_all_expenses ==
  /\ Idle
  /\ conn # "none"
  /\ \E limit \in Limits, fault \in Faults(1) : \E scan \in Scans(fault) :
       Returns("view_all_expenses", [NoArgs EXCEPT !.limit = Some(limit)],
               view_all_expenses_outcome(limit, scan, fault))

search_by_category ==
  /\ Idle
  /\ conn # "none"
  /\ \E q \in SearchInputs, fault \in Faults(2) :
     \E first \in Firsts(q.category_name), scan \in Scans(fault) :
       Returns("search_by_category",
               [NoArgs EXCEPT !.category_id = q.category_id,
                              !.category_name = q.category_name],
               search_by_category_outcome(q.category_id, q.category_name,
                                          first, scan, fault))

filter_by_date_range ==
  /\ Idle
  /\ conn # "none"
  /\ \E start_date \in RangeDates, end_date \in RangeDates, fault \in Faults(1) :
     \E scan \in Scans(fault) :
       Returns("filter_by_date_range",
               [NoArgs EXCEPT !.start_date = Some(start_date),
                              !.end_date = Some(end_date)],
               filter_by_date_range_outcome(start_date, end_date, scan,
                                            fault))

search_by_description ==
  /\ Idle
  /\ conn # "none"
  /\ \E keyword \in Keywords, fault \in Faults(1) : \E scan \in Scans(fault) :
       Returns("search_by_description",
               [NoArgs EXCEPT !.keyword = Some(keyword)],
               search_by_description_outcome(keyword, scan, fault))

get_spending_summary ==
  /\ Idle
  /\ conn # "none"
  /\ \E fault \in Faults(1) : \E scan \in Scans(fault) :
       Returns("get_spending_summary", NoArgs,
               get_spending_summary_outcome(scan, fault))

get_monthly_spending ==
  /\ Idle
  /\ conn # "none"
  /\ \E q \in MonthInputs, fault \in Faults(1) : \E scan \in Scans(fault) :
       Returns("get_monthly_spending",
               [NoArgs EXCEPT !.year = q.year, !.month = q.month],
               get_monthly_spending_outcome(q.year, q.month, scan, fault))

list_categories ==
  /\ Idle
  /\ conn # "none"
  /\ \E fault \in Faults(1) :
       Returns("list_categories", NoArgs, list_categories_outcome(fault))

\* check_budget_limit called on its own
check_budget_limit_call ==
  /\ Idle
  /\ conn # "none"
  /\ \E category_id \in CategoryInputs, fault \in Faults(1) :
       Returns("check_budget_limit",
               [NoArgs EXCEPT !.category_id = Some(category_id)],
               [Outcome(Store, "None",
                        IF ExecRaises(1, fault) THEN "error" ELSE "ok",
                        IF ExecRaises(1, fault) THEN "read" ELSE "none")
                  EXCEPT !.signal = check_budget_limit(Store, category_id,
                                                       ExecRaises(1, fault))])

\* the caller takes the result and goes on to its next call
main_loop ==
  /\ ~Idle
  /\ last' = NoCall
  /\ UNCHANGED <<schema, categories, expenses, sqlite_sequence, tx_expenses,
                 tx_sequence, conn, clock, assigned>>

Next ==
  \/ main_loop
  \/ setup_database
  \/ main_bootstrap
  \/ connect_db
  \/ close_db
  \/ Tick
  \/ add_expense
  \/ update_expense
  \/ delete_expense
  \/ get_total_spending
  \/ view_all_expenses
  \/ search_by_category
  \/ filter_by_date_range
  \/ search_by_description
  \/ get_spending_summary
  \/ get_monthly_spending
  \/ list_categories
  \/ check_budget_limit_call

Spec == Init /\ [][Next]_vars

\* ------------------------------------------- a tracker on an existing store
\* ExpenseTracker(db_path) opens whatever store db_path names.  The schema
\* gives budget_limit the default 0.0, so such a store may hold categories
\* without a budget; these are the category tables and expenses tried.
StoredCategories ==
  { { [id |-> 1, name |-> "Food & Dining", budget_limit |-> 0],
      [id |-> 8, name |-> "Other",         budget_limit |-> 50] },
    { [id |-> 1, name |-> "Food & Dining", budget_limit |-> 0],
      [id |-> 2, name |-> "Transportation", budget_limit |-> 150],
      [id |-> 8, name |-> "Other",         budget_limit |-> 0] } }

StoredRows(id) ==
  { [id |-> id, amount |-> a, category_id |-> c, description |-> "",
     date |-> "2026-10-31", created_at |-> 1] :
    a \in {5, 45, 46}, c \in {1, 8} }

\* the sets of expenses with ids among 1..n, at most one per id
RECURSIVE StoredExpenses(_)
StoredExpenses(n) ==
  IF n = 0 THEN {{}}
  ELSE LET less == StoredExpenses(n - 1)
       IN less \cup {rows \cup {r} : rows \in less, r \in StoredRows(n)}

InitStore ==
  /\ schema \in {"setup", "main"}
  /\ categories \in StoredCategories
  /\ expenses \in StoredExpenses(MaxId)
  /\ sqlite_sequence = MaxId
  /\ tx_expenses = expenses
  /\ tx_sequence = sqlite_sequence
  /\ conn = "open"
  /\ clock = 1
  /\ assigned = 1..MaxId
  /\ last = NoCall

NextStore ==
  \/ main_loop
  \/ get_spending_summary
  \/ check_budget_limit_call

StoreSpec == InitStore /\ [][NextStore]_vars

\* ------------------------------------------------------------------ claims
Mutating == {"add_expense", "update_expense", "delete_expense"}
Ids(rows) == {r.id : r \in rows}
RowOf(rows, id) == CHOOSE r \in rows : r.id = id
NoFault == last.fault_at = "none"

\* C1: in every reachable state, after any successful or failed add_expense,
\* update_expense and delete_expense calls, every stored expense has
\* amount > 0.
C1_AmountPositive == \A e \in expenses : e.amount > 0

\* a stored expense whose amount a successful update has just rewritten
C1_Witness ==
  /\ last.op = "update_expense" /\ last.ret = "True"
  /\ Supplied(last.args.amount)
  /\ expenses # last.before.expenses

\* C2: in every reachable state the category_id of every stored expense is the
\* id of a row of the categories relation.
C2_CategoryReferenced ==
  \A e \in expenses : \E c \in categories : c.id = e.category_id

\* a stored expense whose category a successful update has just rewritten
C2_Witness ==
  /\ last.op = "update_expense" /\ last.ret = "True"
  /\ Supplied(last.args.category_id)
  /\ expenses # last.before.expenses

\* C3: add_expense with an amount <= 0 returns False with the amount
\* diagnostic, whatever its other arguments, and the stored expenses are
\* exactly those before the call.
C3_NonPositiveAmountRejected ==
  (last.op = "add_expense" /\ last.args.amount[1] <= 0)
    => /\ last.ret = "False"
       /\ last.diag = "amount"
       /\ expenses = last.before.expenses

\* add_expense(0, <existing category>, ...) on a store that holds expenses
C3_Witness ==
  /\ last.op = "add_expense" /\ last.args.amount[1] = 0
  /\ last.args.category_id[1] \in Ids(last.before.categories)
  /\ last.before.expenses # {}
  /\ conn = "open"

\* C4: add_expense and update_expense given a category_id that is no id of the
\* categories relation never return True and never add or change a stored
\* expense, whatever the other arguments; in a call during which the store
\* raises no fault they return False.
C4_UnknownCategoryRejected ==
  (/\ last.op \in {"add_expense", "update_expense"}
   /\ Supplied(last.args.category_id)
   /\ last.args.category_id[1] \notin Ids(last.before.categories))
    => /\ expenses = last.before.expenses
       /\ last.ret # "True"
       /\ NoFault => last.ret = "False"

\* update_expense of a stored expense with a valid amount and an unknown
\* category, refused for the category
C4_Witness ==
  /\ last.op = "update_expense"
  /\ last.args.expense_id[1] \in Ids(last.before.expenses)
  /\ Supplied(last.args.amount) /\ last.args.amount[1] > 0
  /\ last.args.category_id = Some(9)
  /\ 9 \notin Ids(last.before.categories)
  /\ last.ret = "False" /\ last.diag = "category"

\* C5: update_expense with amount, category_id, description and date all
\* omitted returns False ("nothing to update") for every id, stored or not,
\* and leaves every stored expense unchanged.
C5_EmptyUpdateRejected ==
  (/\ last.op = "update_expense"
   /\ ~Supplied(last.args.amount) /\ ~Supplied(last.args.category_id)
   /\ ~Supplied(last.args.description) /\ ~Supplied(last.args.date))
    => /\ last.ret = "False"
       /\ last.diag = "nothing"
       /\ expenses = last.before.expenses

\* an update of a stored expense with nothing supplied
C5_Witness ==
  /\ last.op = "update_expense"
  /\ last.args = [NoArgs EXCEPT !.expense_id = last.args.expense_id]
  /\ last.args.expense_id[1] \in Ids(last.before.expenses)
  /\ conn = "open"

\* C6: after a successful update_expense(id, ...) the expense id holds the
\* supplied values in the supplied fields and its previous values in the
\* unsupplied fields, in id and in created_at, and every other stored expense
\* is what it was.
C6_UpdateFrame ==
  (last.op = "update_expense" /\ last.ret = "True")
    => /\ last.args.expense_id[1] \in Ids(last.before.expenses)
       /\ LET a == last.args
              old == RowOf(last.before.expenses, a.expense_id[1])
              new == [id |-> old.id,
                      amount |-> IF a.amount = None THEN old.amount
                                 ELSE a.amount[1],
                      category_id |-> IF a.category_id = None
                                      THEN old.category_id
                                      ELSE a.category_id[1],
                      description |-> IF a.description = None
                                      THEN old.description
                                      ELSE a.description[1],
                      date |-> IF a.date = None THEN old.date ELSE a.date[1],
                      created_at |-> old.created_at]
          IN expenses = (last.before.expenses \ {old}) \cup {new}

\* a successful update of the amount alone, of an expense that carries a
\* description, while a second expense is stored
C6_Witness ==
  /\ last.op = "update_expense" /\ last.ret = "True"
  /\ Supplied(last.args.amount) /\ ~Supplied(last.args.description)
  /\ ~Supplied(last.args.category_id) /\ ~Supplied(last.args.date)
  /\ RowOf(expenses, last.args.expense_id[1]).description = "rent"
  /\ Cardinality(expenses) = 2

\* C7: delete_expense(id) on a stored expense id, in a call during which the
\* store raises no fault, returns True; afterwards the stored expenses are
\* the previous ones without id, no query can read id any more, and the
\* categories are unchanged.
C7_DeleteFrame ==
  (/\ last.op = "delete_expense" /\ NoFault
   /\ last.args.expense_id[1] \in Ids(last.before.expenses))
    => /\ last.ret = "True"
       /\ expenses = {e \in last.before.expenses :
                        e.id # last.args.expense_id[1]}
       /\ last.args.expense_id[1] \notin Ids(tx_expenses)
       /\ categories = last.before.categories

\* a successful delete that leaves another expense stored
C7_Witness ==
  /\ last.op = "delete_expense" /\ last.ret = "True"
  /\ last.args.expense_id[1] \in Ids(last.before.expenses)
  /\ expenses # {}

\* C8: for an id that is no stored expense, delete_expense(id) and
\* update_expense(id, ...) with at least one field supplied and every supplied
\* field valid return False with the not-found diagnostic (none of the
\* validation diagnostics) and leave the store unchanged, in a call during
\* which the store raises no fault.
C8_NotFound ==
  (/\ NoFault
   /\ \/ last.op = "delete_expense"
      \/ /\ last.op = "update_expense"
         /\ \/ Supplied(last.args.amount) \/ Supplied(last.args.category_id)
            \/ Supplied(last.args.description) \/ Supplied(last.args.date)
         /\ Supplied(last.args.amount) => last.args.amount[1] > 0
         /\ Supplied(last.args.category_id)
              => last.args.category_id[1] \in Ids(last.before.categories)
   /\ last.args.expense_id[1] \notin Ids(last.before.expenses))
    => /\ last.ret = "False"
       /\ last.diag = "not_found"
       /\ last.diag \notin {"amount", "category", "nothing"}
       /\ expenses = last.before.expenses
       /\ tx_expenses = expenses

\* an update with valid fields of an id that was deleted, other expenses stored
C8_Witness ==
  /\ last.op = "update_expense" /\ last.diag = "not_found"
  /\ Supplied(last.args.amount) /\ Supplied(last.args.category_id)
  /\ last.args.expense_id[1] <= sqlite_sequence
  /\ expenses # {}

\* C9: each mutating operation is all-or-nothing: a storage fault during its
\* write (the INSERT, UPDATE or DELETE, or the commit) makes it return False
\* with the store as before the call; when it returns True its changes are
\* committed; no uncommitted change is pending when an operation returns.
C9_AllOrNothing ==
  /\ (last.op \in Mutating /\ last.fault_at \in {"write", "commit"})
       => (last.ret = "False" /\ expenses = last.before.expenses)
  /\ (last.op \in Mutating /\ last.ret = "True") => expenses = tx_expenses
  /\ tx_expenses = expenses /\ tx_sequence = sqlite_sequence

\* C10: whenever the store raises a fault during an operation, in any state
\* of the service, the operation returns its failure value (False for
\* add/update/delete, 0.0 for get_total_spending) and does not raise.
C10_FaultsReturnFailure ==
  (last.fault_at # "none")
    => /\ last.ret # "Raised"
       /\ last.op \in Mutating => last.ret = "False"
       /\ last.op = "get_total_spending"
            => (last.ret = "Float" /\ last.total = 0)

\* C11: a successful add_expense gives the new expense an id greater than
\* every id an earlier add_expense assigned, deleted expenses included; the
\* ids of the other stored expenses, and of all stored expenses under update
\* and delete, stay what they were, and no two stored expenses share an id.
C11_IdsNeverReused ==
  /\ (last.op = "add_expense" /\ last.ret = "True")
       => \E new \in Ids(expenses) \ Ids(last.before.expenses) :
            /\ \A i \in last.before.assigned : new > i
            /\ expenses \ last.before.expenses
                 = {e \in expenses : e.id = new}
            /\ last.before.expenses \subseteq expenses
  /\ (last.op = "update_expense")
       => Ids(expenses) = Ids(last.before.expenses)
  /\ (last.op = "delete_expense")
       => expenses \subseteq last.before.expenses
  /\ Cardinality(Ids(expenses)) = Cardinality(expenses)

\* a successful add_expense after the expense with the largest id was deleted
C11_Witness ==
  /\ last.op = "add_expense" /\ last.ret = "True"
  /\ \E i \in last.before.assigned :
       /\ i \notin Ids(last.before.expenses)
       /\ \A e \in last.before.expenses : e.id < i

\* the expense a successful add_expense has just stored
JustAdded == CHOOSE e \in expenses : e.id \notin Ids(last.before.expenses)

\* the last call was a successful add_expense(a, c, "", date omitted)
AddedPlain ==
  /\ last.op = "add_expense" /\ last.ret = "True"
  /\ last.args.description = Some("") /\ last.args.date = None

\* C12 as claimed: in any reachable state a successful add_expense(a, c, "",
\* date omitted) immediately followed by view_all_expenses(1) returns exactly
\* one row, the expense just added, with amount a and the current date.  It
\* is stated here for a store that hands out equal rows newest first.
C12_ViewOneReturnsAdded ==
  AddedPlain
    => view_all_expenses_rows(1, "backward") = <<ViewRow(JustAdded)>>

\* C12 as amended: a successful add_expense(a, c, "", date omitted) stores
\* amount a and the current date, and view_all_expenses(1) right after it
\* returns exactly one row; when no stored expense is dated later than the
\* current date that row is dated the current date and was created in the
\* current second, and it is the expense just added when every other stored
\* expense has an earlier date, or the same date and an earlier creation time.
C12_ViewOneAfterAdd ==
  AddedPlain
    => /\ JustAdded.amount = last.args.amount[1]
       /\ JustAdded.date = Today(clock)
       /\ \A scan \in ScanOrders :
            LET rows == view_all_expenses_rows(1, scan)
            IN /\ Len(rows) = 1
               /\ (\A e \in expenses :
                      DateRank(e.date) <= DateRank(Today(clock)))
                    => /\ rows[1].date = Today(clock)
                       /\ rows[1].created_at = clock
               /\ (\A e \in expenses \ {JustAdded} :
                      \/ DateRank(e.date) < DateRank(JustAdded.date)
                      \/ /\ e.date = JustAdded.date
                         /\ e.created_at < JustAdded.created_at)
                    => rows = <<ViewRow(JustAdded)>>

\* add_expense(a, c, "", date omitted) into a store that holds an older
\* expense of the same date; view_all_expenses(1) returns the new one
C12_Witness ==
  /\ AddedPlain
  /\ \E e \in expenses \ {JustAdded} :
       e.date = JustAdded.date /\ e.created_at < JustAdded.created_at
  /\ view_all_expenses_rows(1, "forward") = <<ViewRow(JustAdded)>>

\* the stored expenses in the order C13 names: date descending, and among
\* equal dates the one inserted later (the larger id) first
NewestFirst(rows) ==
  SortDesc({ [key |-> <<DateRank(e.date), e.id, 0>>, row |-> ViewRow(e)] :
             e \in rows })

\* C13: view_all_expenses(limit), limit >= 0, in a call during which the
\* store raises no fault, returns the first `limit` rows (all when fewer are
\* stored, never more than `limit`) of the stored expenses sorted by date
\* descending and, among expenses with equal date, most recently inserted
\* first.
C13_ViewAllOrdered ==
  (last.op = "view_all_expenses" /\ NoFault)
    => /\ Len(last.rows) <= last.args.limit[1]
       /\ Len(last.rows) = IF Cardinality(expenses) < last.args.limit[1]
                            THEN Cardinality(expenses)
                            ELSE last.args.limit[1]
       /\ last.rows = SubSeq(NewestFirst(expenses), 1, Len(last.rows))

\* the rows of a query result that stand for expense id
RowsFor(rows, id) == {i \in 1..Len(rows) : rows[i].id = id}

\* the date add_expense stores for its date argument
GivenDate(date) == IF date = None \/ date = Some("") THEN Today(clock)
                   ELSE date[1]

\* C14: after a successful add_expense(a, c, desc, d),
\* search_by_category(category_id=c) and view_all_expenses with a limit not
\* smaller than the number of stored expenses each contain exactly one row
\* for the new expense, whose amount, description and date are a, desc and d
\* (the current date when d is omitted) and whose category is the name of
\* category c.
C14_RoundTrip ==
  (last.op = "add_expense" /\ last.ret = "True")
    => \A scan \in ScanOrders :
         \A rows \in { view_all_expenses_rows(Cardinality(expenses), scan),
                       view_all_expenses_rows(50, scan),
                       search_by_category_rows(last.args.category_id, scan) } :
           /\ Cardinality(RowsFor(rows, JustAdded.id)) = 1
           /\ \A i \in RowsFor(rows, JustAdded.id) :
                /\ rows[i].amount = last.args.amount[1]
                /\ rows[i].description = last.args.description[1]
                /\ rows[i].date = GivenDate(last.args.date)
                /\ \E c \in last.before.categories :
                     /\ c.id = last.args.category_id[1]
                     /\ rows[i].category = c.name

\* a successful add_expense with a date given, in category 8, into a store
\* that holds an expense of another category
C14_Witness ==
  /\ last.op = "add_expense" /\ last.ret = "True"
  /\ last.args.date # None /\ last.args.category_id = Some(8)
  /\ \E e \in last.before.expenses : e.category_id = 1
  /\ Len(search_by_category_rows(Some(8), "forward")) = 1
  /\ Len(view_all_expenses_rows(50, "forward")) = 2

\* the amounts of rows added up in the order of their ids
RECURSIVE TotalUpTo(_, _)
TotalUpTo(rows, n) ==
  IF n = 0 THEN 0
  ELSE TotalUpTo(rows, n - 1)
       + (IF n \in Ids(rows) THEN RowOf(rows, n).amount ELSE 0)

\* C15: get_total_spending, in a call during which the store raises no
\* fault, returns the sum of the amounts of all stored expenses, and exactly
\* 0 (a number, not null) when no expense is stored, also after every
\* expense was deleted.
C15_TotalIsSum ==
  (last.op = "get_total_spending" /\ NoFault)
    => /\ last.ret = "Float"
       /\ last.total = TotalUpTo(expenses, MaxId)
       /\ expenses = {} => last.total = 0

\* get_total_spending after every expense that was added has been deleted
C15_Witness ==
  /\ last.op = "get_total_spending" /\ NoFault
  /\ expenses = {} /\ Cardinality(assigned) = MaxId
  /\ last.total = 0

\* C16: get_spending_summary, in a call during which the store raises no
\* fault, returns exactly one row per category, and the row of every category
\* without a stored expense reports total_spent = 0, transaction_count = 0
\* and remaining_budget = budget_limit.
C16_SummaryZeroRows ==
  (last.op = "get_spending_summary" /\ NoFault)
    => /\ Len(last.rows) = Cardinality(categories)
       /\ \A c \in categories :
            \E i \in 1..Len(last.rows) :
              /\ last.rows[i].category = c.name
              /\ \A j \in 1..Len(last.rows) :
                   last.rows[j].category = c.name => j = i
              /\ (\A e \in expenses : e.category_id # c.id)
                   => /\ last.rows[i].total_spent = <<0>>
                      /\ last.rows[i].transaction_count = 0
                      /\ last.rows[i].remaining_budget = <<c.budget_limit>>

\* C17: for every category whose budget_limit is 0, whatever expenses are
\* stored in it (none included), get_spending_summary completes (no fault in
\* the division) and reports percent_used = 0 for it.
C17_NoBudgetNoPercent ==
  (last.op = "get_spending_summary" /\ NoFault)
    => /\ last.ret = "List" /\ last.diag = "ok"
       /\ \A c \in categories :
            c.budget_limit = 0
              => \E i \in 1..Len(last.rows) :
                   /\ last.rows[i].category = c.name
                   /\ last.rows[i].percent_used = <<0>>

\* a summary of a store with one category without a budget that holds
\* expenses and another that holds none
C17_Witness ==
  /\ last.op = "get_spending_summary" /\ NoFault
  /\ \E c \in categories :
       c.budget_limit = 0 /\ \E e \in expenses : e.category_id = c.id
  /\ \E c \in categories :
       c.budget_limit = 0 /\ \A e \in expenses : e.category_id # c.id

\* C18: filter_by_date_range(start, end), in a call during which the store
\* raises no fault, returns exactly the stored expenses whose date d
\* satisfies start <= d <= end as YYYY-MM-DD strings, each once, ordered by
\* date descending; filter_by_date_range(d, d) returns exactly the expenses
\* dated d.
C18_DateRange ==
  (last.op = "filter_by_date_range" /\ NoFault)
    => LET from == last.args.start_date[1]
           to == last.args.end_date[1]
           rows == last.rows
       IN /\ {rows[i] : i \in 1..Len(rows)}
               = {SearchRow(e) : e \in
                    {x \in expenses : /\ DateRank(from) <= DateRank(x.date)
                                      /\ DateRank(x.date) <= DateRank(to)}}
          /\ \A i, j \in 1..Len(rows) :
               /\ i < j => DateRank(rows[i].date) >= DateRank(rows[j].date)
               /\ rows[i].id = rows[j].id => i = j
          /\ from = to
               => {rows[i].id : i \in 1..Len(rows)}
                    = {e.id : e \in {x \in expenses : x.date = from}}

\* filter_by_date_range(d, d) on a store with an expense dated d and one
\* dated otherwise
C18_Witness ==
  /\ last.op = "filter_by_date_range" /\ NoFault
  /\ last.args.start_date = last.args.end_date
  /\ Len(last.rows) >= 1
  /\ \E e \in expenses : e.date # last.args.start_date[1]

Queries ==
  {"view_all_expenses", "search_by_category", "filter_by_date_range",
   "search_by_description", "get_spending_summary", "get_monthly_spending",
   "get_total_spending", "list_categories", "check_budget_limit"}

\* C19: no query or report operation changes a stored category or expense
\* or leaves a change pending, so a second list_categories right after a
\* first returns what the first returned.
C19_QueriesChangeNothing ==
  /\ last.op \in Queries
       => /\ expenses = last.before.expenses
          /\ categories = last.before.categories
          /\ tx_expenses = expenses
          /\ assigned = last.before.assigned
  /\ (last.op = "list_categories" /\ NoFault)
       => last.rows = list_categories_rows

\* list_categories on a store that holds expenses
C19_Witness ==
  /\ last.op = "list_categories" /\ NoFault
  /\ Len(last.rows) = 8
  /\ \E i \in 1..Len(last.rows) : last.rows[i].total_spent > 0

\* each default list holds eight categories with pairwise distinct names and
\* a positive budget_limit each
DefaultsWellFormed ==
  \A defaults \in {SetupCategories, MainCategories} :
    /\ Cardinality(defaults) = 8
    /\ \A c, d \in defaults : c.name = d.name => c = d
    /\ \A c \in defaults : c.budget_limit > 0

\* C20: once a bootstrap has created the store, the categories relation is
\* in every reachable state exactly the eight default categories that
\* bootstrap seeded, with pairwise distinct names and budget_limit > 0 each:
\* no ledger operation adds, removes or modifies a category, and running the
\* bootstrap again changes neither categories nor expenses.
C20_CategoriesFixed ==
  /\ schema \in {"setup", "main"}
       => /\ categories = IF schema = "setup" THEN SetupCategories
                          ELSE MainCategories
          /\ DefaultsWellFormed
  /\ last.op \in Mutating \cup Queries
       => categories = last.before.categories
  /\ (last.op = "setup_database" /\ last.before.categories # {})
       => /\ categories = last.before.categories
          /\ expenses = last.before.expenses

\* setup_database run again on the store main() created, expenses stored
C20_Witness ==
  /\ last.op = "setup_database"
  /\ schema = "main"
  /\ last.before.categories = MainCategories
  /\ expenses # {}

\* the steps of add_expense that are its budget-limit check
CheckSteps == {"check_budget_limit", "check_budget_limit_error"}

\* the signal due for a category with limit L in which spent was spent
BudgetSignal(spent, L) ==
  IF L > 0 /\ spent > L THEN "over"
  ELSE IF L > 0 /\ 10 * spent > 9 * L /\ spent <= L THEN "near"
  ELSE "none"

\* the sum of the amounts of the rows of one category
SpentIn(rows, category_id) ==
  TotalUpTo({e \in rows : e.category_id = category_id}, MaxId)

LimitOf(category_id) ==
  (CHOOSE c \in categories : c.id = category_id).budget_limit

\* C21: the budget-limit check of add_expense is its last step, taken only
\* after the INSERT and then the commit went through, and taken exactly when
\* add_expense returns True; it signals for the category total that includes
\* the new expense; whatever it signals, and also when its own SELECT
\* raises, add_expense returns True and the new expense is committed: an
\* add that takes a category over its budget is stored like any other.
C21_CheckAfterCommit ==
  last.op = "add_expense" =>
    LET t == last.trace
        checked == \E i \in 1..Len(t) : t[i] \in CheckSteps
        c == last.args.category_id[1]
    IN /\ \A i \in 1..Len(t) :
            t[i] \in CheckSteps
              => /\ i = Len(t)
                 /\ \E j \in 1..(i - 1) :
                      /\ t[j] = "commit"
                      /\ \E k \in 1..(j - 1) : t[k] = "insert"
       /\ checked <=> last.ret = "True"
       /\ last.signal # "none" => checked
       /\ last.ret = "True"
            => /\ Cardinality(expenses \ last.before.expenses) = 1
               /\ last.before.expenses \subseteq expenses
               /\ JustAdded.category_id = c
               /\ tx_expenses = expenses
               /\ t[Len(t)] = "check_budget_limit"
                    => last.signal = BudgetSignal(SpentIn(expenses, c),
                                                  LimitOf(c))
               /\ t[Len(t)] = "check_budget_limit_error"
                    => last.signal = "none"

\* an add_expense that takes a category from within its budget to over it
C21_Witness ==
  /\ last.op = "add_expense" /\ last.ret = "True"
  /\ last.signal = "over"
  /\ last.before.expenses # {}
  /\ SpentIn(last.before.expenses, last.args.category_id[1])
       <= LimitOf(last.args.category_id[1])
  /\ SpentIn(expenses, last.args.category_id[1])
       > LimitOf(last.args.category_id[1])
  /\ JustAdded \in expenses

\* C22: check_budget_limit(c), in a call during which the store raises no
\* fault, with spent the sum of the stored amounts of category c and L its
\* budget_limit, signals "over budget" iff L > 0 and spent > L, "near
\* budget" iff L > 0 and 0.9 * L < spent <= L, and nothing otherwise: never
\* when L = 0, never for an id that names no category, never both.
C22_BudgetSignal ==
  (last.op = "check_budget_limit" /\ NoFault)
    => LET c == last.args.category_id[1]
           known == \E x \in categories : x.id = c
           spent == SpentIn(expenses, c)
       IN /\ last.signal \in {"over", "near", "none"}
          /\ last.signal = "over"
               <=> (known /\ LimitOf(c) > 0 /\ spent > LimitOf(c))
          /\ last.signal = "near"
               <=> (known /\ LimitOf(c) > 0 /\ 9 * LimitOf(c) < 10 * spent
                    /\ spent <= LimitOf(c))
          /\ (known /\ LimitOf(c) = 0) => last.signal = "none"
          /\ ~known => last.signal = "none"

\* a check of a category whose total equals its limit: near, not over
C22_Witness ==
  /\ last.op = "check_budget_limit" /\ NoFault
  /\ last.args.category_id = Some(8)
  /\ LimitOf(8) > 0
  /\ SpentIn(expenses, 8) = LimitOf(8)
  /\ last.signal = "near"

\* text occurs in name, the case of letters aside
Contains(text, name) ==
  \E i \in 0..(Len(Chars(name)) - Len(Chars(text))) :
    \A k \in 1..Len(Chars(text)) :
      Lower(Chars(name)[i + k]) = Lower(Chars(text)[k])

\* C23 as claimed: search_by_category with a non-empty category_name, in a
\* call during which the store raises no fault, returns all and only the
\* stored expenses of one category whose name contains the given text,
\* whatever category_id was passed with it, and returns no row when no
\* category name contains the text.
C23_NameSelectsOneCategory ==
  (/\ last.op = "search_by_category" /\ NoFault
   /\ last.args.category_name \notin {None, Some("")})
    => LET named == {c \in categories :
                       Contains(last.args.category_name[1], c.name)}
       IN /\ last.ret = "List"
          /\ named = {} => last.rows = <<>>
          /\ named # {}
               => \E c \in named :
                    /\ {last.rows[i].id : i \in 1..Len(last.rows)}
                         = {e.id : e \in {x \in expenses :
                                            x.category_id = c.id}}
                    /\ \A i, j \in 1..Len(last.rows) :
                         last.rows[i].id = last.rows[j].id => i = j

\* total_spent of the first n rows added up
RECURSIVE SpentUpTo(_, _)
SpentUpTo(rows, n) ==
  IF n = 0 THEN 0 ELSE SpentUpTo(rows, n - 1) + rows[n].total_spent

====
